---------------------------- MODULE Spec2Model ----------------------------
(***************************************************************************)
(* Model of src/BankQrCodeStringGenerator.js: class QRGeneration, which    *)
(* assembles an EMV merchant-presented QR payload out of TLV segments and  *)
(* appends a CRC16 checksum.                                               *)
(*                                                                         *)
(* A JavaScript string is a sequence of one-character strings.  A          *)
(* JavaScript value is a record [t, s, n]: t is its type ("undefined",     *)
(* "string", "number", "boolean"), s its characters when a string, n its   *)
(* value when a number (a boolean is n = 1 or n = 0).  The outcome of a    *)
(* call is a record [ok, val, err]: the returned string, or the thrown     *)
(* error.                                                                  *)
(***************************************************************************)
EXTENDS Integers, Sequences, FiniteSets, TLC

VARIABLES
    this,        \* the instance's fields, as the constructor set them
    qr,          \* outcome of the latest generateQR() call
    firstQr,     \* outcome of the first generateQR() call
    components,  \* outcome of the latest getComponents() call
    nGen,        \* number of generateQR() calls made so far
    tlvArgs,     \* arguments of a direct #buildTLV call
    tlvRes       \* outcome of that call

vars == <<this, qr, firstQr, components, nGen, tlvArgs, tlvRes>>

-----------------------------------------------------------------------------
(* Characters and JavaScript primitives                                    *)

Digits == <<"0", "1", "2", "3", "4", "5", "6", "7", "8", "9">>

Upper == <<"A", "B", "C", "D", "E", "F", "G", "H", "I", "J", "K", "L", "M",
           "N", "O", "P", "Q", "R", "S", "T", "U", "V", "W", "X", "Y", "Z">>

Lower == <<"a", "b", "c", "d", "e", "f", "g", "h", "i", "j", "k", "l", "m",
           "n", "o", "p", "q", "r", "s", "t", "u", "v", "w", "x", "y", "z">>

\* Index of character c in the sequence alphabet, 0 when it is not there.
IndexIn(alphabet, c) ==
    IF \E i \in 1..Len(alphabet) : alphabet[i] = c
    THEN CHOOSE i \in 1..Len(alphabet) : alphabet[i] = c
    ELSE 0

\* String.prototype.charCodeAt(0) of a one-character string.  "dj" stands
\* for the letter d with stroke (U+0111), a character beyond one byte.
charCodeAt(c) ==
    IF IndexIn(Digits, c) > 0 THEN 47 + IndexIn(Digits, c)
    ELSE IF IndexIn(Upper, c) > 0 THEN 64 + IndexIn(Upper, c)
    ELSE IF IndexIn(Lower, c) > 0 THEN 96 + IndexIn(Lower, c)
    ELSE IF c = " " THEN 32
    ELSE IF c = "." THEN 46
    ELSE 273

\* String.prototype.toUpperCase, character by character.
toUpperCase(s) ==
    [i \in 1..Len(s) |->
        IF IndexIn(Lower, s[i]) > 0 THEN Upper[IndexIn(Lower, s[i])] ELSE s[i]]

\* Number.prototype.toString(radix) of a non-negative integer.
RECURSIVE numberToString(_, _)
numberToString(n, radix) ==
    LET digitChars == Digits \o Lower
    IN  IF n < radix
        THEN <<digitChars[n + 1]>>
        ELSE numberToString(n \div radix, radix) \o <<digitChars[(n % radix) + 1]>>

\* String.prototype.padStart(targetLength, padChar).
RECURSIVE padStart(_, _, _)
padStart(s, targetLength, padChar) ==
    IF Len(s) >= targetLength THEN s
    ELSE padStart(<<padChar>> \o s, targetLength, padChar)

Undefined == [t |-> "undefined", s |-> <<>>, n |-> 0]
StrV(chars) == [t |-> "string", s |-> chars, n |-> 0]
NumV(k) == [t |-> "number", s |-> <<>>, n |-> k]
BoolV(b) == [t |-> "boolean", s |-> <<>>, n |-> IF b THEN 1 ELSE 0]

\* ToBoolean: undefined, "", 0 and false are falsy.
Truthy(v) ==
    CASE v.t = "undefined" -> FALSE
      [] v.t = "string" -> v.s # <<>>
      [] OTHER -> v.n # 0

\* ToString as applied by the + operator to a string and a value.
Coerce(v) ==
    CASE v.t = "undefined" -> <<"u", "n", "d", "e", "f", "i", "n", "e", "d">>
      [] v.t = "string" -> v.s
      [] v.t = "number" -> numberToString(v.n, 10)
      [] OTHER -> IF v.n = 1 THEN <<"t", "r", "u", "e">>
                  ELSE <<"f", "a", "l", "s", "e">>

NoError == [kind |-> "none", length |-> 0]
\* new Error(`Data length ${length} out of range (1-99)`)
LengthError(length) == [kind |-> "Error", length |-> length]
\* the TypeError of a property read on undefined
TypeError == [kind |-> "TypeError", length |-> 0]

Ok(chars) == [ok |-> TRUE, val |-> chars, err |-> NoError]
Throw(e) == [ok |-> FALSE, val |-> <<>>, err |-> e]

\* a + b with the operands evaluated left to right: the first throw wins.
Cat(a, b) ==
    IF ~a.ok THEN a
    ELSE IF ~b.ok THEN b
    ELSE Ok(a.val \o b.val)

\* data.toString(): a method call, so it throws on undefined.
toStringOf(data) ==
    IF data.t = "undefined" THEN Throw(TypeError) ELSE Ok(Coerce(data))

-----------------------------------------------------------------------------
(* #CONSTANTS                                                              *)

PAYLOAD_FORMAT == <<"0", "0", "0", "2", "0", "1">>
PIM_STATIC == <<"0", "1", "0", "2", "1", "1">>
PIM_DYNAMIC == <<"0", "1", "0", "2", "1", "2">>
CURRENCY == <<"5", "3", "0", "3", "7", "0", "4">>
COUNTRY == <<"5", "8", "0", "2", "V", "N">>
CRC_ID == <<"6", "3", "0", "4">>
ACQUIRER_ID == <<"0", "0", "0", "6">>
MERCHANT_ID == <<"0", "1">>
BENEFICIARY_ORG_ID == <<"0", "1">>
DVCNTT_ID == <<"3", "8">>
AMOUNT_ID == <<"5", "4">>
ADDITIONAL_DATA_ID == <<"6", "2">>
BILL_NUMBER_ID == <<"0", "1">>
PURPOSE_ID == <<"0", "8">>
GUID == <<"0", "0", "1", "0", "A", "0", "0", "0", "0", "0", "0", "7", "2", "7">>
SERVICE_ACCOUNT == <<"0", "2", "0", "8", "Q", "R", "I", "B", "F", "T", "T", "A">>
SERVICE_CARD == <<"0", "2", "0", "8", "Q", "R", "I", "B", "F", "T", "T", "C">>
BILL_PREFIX == <<"N", "A", "P", "A", "S">>

STATIC == <<"S", "T", "A", "T", "I", "C">>
DYNAMIC == <<"D", "Y", "N", "A", "M", "I", "C">>

-----------------------------------------------------------------------------
(* Private methods                                                         *)

\* #generateBillNumber, for the value r that randomInt(10000) returned.
generateBillNumber(r) ==
    BILL_PREFIX \o padStart(numberToString(r, 10), 4, "0")

\* #formatLength with the upper limit off by one
formatLength_accepts100(data) ==
    LET str == toStringOf(data)
    IN  IF ~str.ok THEN str
        ELSE LET length == Len(str.val)
             IN  IF length < 1 \/ length > 100
                 THEN Throw(LengthError(length))
                 ELSE Ok(padStart(numberToString(length, 10), 2, "0"))

\* #formatLength
formatLength(data) ==
    LET str == toStringOf(data)
    IN  IF ~str.ok THEN str
        ELSE LET length == Len(str.val)
             IN  IF length < 1 \/ length > 99
                 THEN Throw(LengthError(length))
                 ELSE Ok(padStart(numberToString(length, 10), 2, "0"))

\* #buildTLV
buildTLV(id, value) ==
    Cat(Cat(Ok(id), formatLength(value)), Ok(Coerce(value)))

\* a ^ b on non-negative integers
RECURSIVE BitXor(_, _)
BitXor(a, b) ==
    IF a = 0 THEN b
    ELSE IF b = 0 THEN a
    ELSE ((a + b) % 2) + 2 * BitXor(a \div 2, b \div 2)

\* the inner loop of #calculateCRC16, with i iterations left
RECURSIVE crcShift(_, _)
crcShift(crc, i) ==
    IF i = 0 THEN crc
    ELSE LET polynomial == 4129
             shifted == IF (crc \div 32768) % 2 = 1
                        THEN BitXor(crc * 2, polynomial)
                        ELSE crc * 2
         IN  crcShift(shifted % 65536, i - 1)

\* the outer loop of #calculateCRC16 over characters lo..hi of data, in order,
\* starting from crc.  The range is folded by halves, the left half first
\* (its value is settled by the test before the right half starts), which
\* visits the characters in the loop's order.
RECURSIVE crcLoop(_, _, _, _)
crcLoop(data, lo, hi, crc) ==
    IF lo > hi THEN crc
    ELSE IF lo = hi
    THEN crcShift(BitXor(crc, charCodeAt(data[lo]) * 256), 8)
    ELSE LET mid == (lo + hi) \div 2
             left == crcLoop(data, lo, mid, crc)
         IN  IF left >= 0 THEN crcLoop(data, mid + 1, hi, left) ELSE left

\* #calculateCRC16
calculateCRC16(data) ==
    padStart(toUpperCase(numberToString(crcLoop(data, 1, Len(data), 65535), 16)), 4, "0")


\* #getPointOfInitiation
getPointOfInitiation(self) ==
    IF self.initType = StrV(STATIC) THEN PIM_STATIC ELSE PIM_DYNAMIC

\* #getMerchantInfo
getMerchantInfo(self) ==
    LET acquirerData == ACQUIRER_ID \o Coerce(self.bankBin)
        merchantData == buildTLV(MERCHANT_ID, self.accNo)
    IN  Cat(Ok(acquirerData), merchantData)

\* #getServiceType
getServiceType(self) ==
    IF Truthy(self.isAccount) THEN SERVICE_ACCOUNT ELSE SERVICE_CARD

\* #getMerchantAccountInfo
getMerchantAccountInfo(self) ==
    LET merchantInfo == getMerchantInfo(self)
        fullData ==
            IF ~merchantInfo.ok THEN merchantInfo
            ELSE Cat(Cat(Cat(Ok(GUID \o BENEFICIARY_ORG_ID),
                             formatLength(StrV(merchantInfo.val))),
                         merchantInfo),
                     Ok(getServiceType(self)))
    IN  IF ~fullData.ok THEN fullData
        ELSE buildTLV(DVCNTT_ID, StrV(fullData.val))

\* #getTransactionAmount
getTransactionAmount(self) ==
    IF self.initType = StrV(DYNAMIC) /\ Truthy(self.amount)
    THEN buildTLV(AMOUNT_ID, self.amount)
    ELSE Ok(<<>>)

\* #getAdditionalData with the two inner TLVs in the other order
getAdditionalData_purposeFirst(self) ==
    IF self.initType # StrV(DYNAMIC) THEN Ok(<<>>)
    ELSE LET billData == buildTLV(BILL_NUMBER_ID, StrV(self.billNumber))
             purposeData == buildTLV(PURPOSE_ID, self.desc)
             inner == Cat(purposeData, billData)
         IN  IF ~inner.ok THEN inner
             ELSE buildTLV(ADDITIONAL_DATA_ID, StrV(inner.val))

\* #getAdditionalData
getAdditionalData(self) ==
    IF self.initType # StrV(DYNAMIC) THEN Ok(<<>>)
    ELSE LET billData == buildTLV(BILL_NUMBER_ID, StrV(self.billNumber))
             purposeData == buildTLV(PURPOSE_ID, self.desc)
             inner == Cat(billData, purposeData)
         IN  IF ~inner.ok THEN inner
             ELSE buildTLV(ADDITIONAL_DATA_ID, StrV(inner.val))

-----------------------------------------------------------------------------
(* Public methods                                                          *)

\* the concatenation qrData of generateQR
qrDataOf(self) ==
    Cat(Cat(Cat(Cat(Cat(Cat(
        Ok(PAYLOAD_FORMAT \o getPointOfInitiation(self)),
        getMerchantAccountInfo(self)),
        Ok(CURRENCY)),
        getTransactionAmount(self)),
        Ok(COUNTRY)),
        getAdditionalData(self)),
        Ok(CRC_ID))

\* generateQR with the amount segment ahead of the currency
generateQR_amountBeforeCurrency(self) ==
    LET qrData ==
            Cat(Cat(Cat(Cat(Cat(Cat(
                Ok(PAYLOAD_FORMAT \o getPointOfInitiation(self)),
                getMerchantAccountInfo(self)),
                getTransactionAmount(self)),
                Ok(CURRENCY)),
                Ok(COUNTRY)),
                getAdditionalData(self)),
                Ok(CRC_ID))
    IN  IF ~qrData.ok THEN qrData
        ELSE Ok(qrData.val \o calculateCRC16(qrData.val))

\* generateQR hashing the payload without the checksum tag and length
generateQR_crcBeforeTag(self) ==
    LET qrData == qrDataOf(self)
    IN  IF ~qrData.ok THEN qrData
        ELSE Ok(qrData.val
                \o calculateCRC16(SubSeq(qrData.val, 1, Len(qrData.val) - 4)))

\* generateQR
generateQR(self) ==
    LET qrData == qrDataOf(self)
    IN  IF ~qrData.ok THEN qrData
        ELSE Ok(qrData.val \o calculateCRC16(qrData.val))

NoComponents(e) ==
    [ok |-> FALSE, err |-> e,
     payloadFormat |-> <<>>, pointOfInitiation |-> <<>>,
     merchantAccount |-> <<>>, currency |-> <<>>, amount |-> <<>>,
     country |-> <<>>, additionalData |-> <<>>, billNumber |-> <<>>]

\* getComponents: the object literal's properties are evaluated in order
getComponents(self) ==
    LET merchantAccount == getMerchantAccountInfo(self)
        amount == getTransactionAmount(self)
        additionalData == getAdditionalData(self)
    IN  IF ~merchantAccount.ok THEN NoComponents(merchantAccount.err)
        ELSE IF ~amount.ok THEN NoComponents(amount.err)
        ELSE IF ~additionalData.ok THEN NoComponents(additionalData.err)
        ELSE [ok |-> TRUE, err |-> NoError,
              payloadFormat |-> PAYLOAD_FORMAT,
              pointOfInitiation |-> getPointOfInitiation(self),
              merchantAccount |-> merchantAccount.val,
              currency |-> CURRENCY,
              amount |-> amount.val,
              country |-> COUNTRY,
              additionalData |-> additionalData.val,
              billNumber |-> self.billNumber]

\* constructor, for the value r that randomInt(10000) returned; it throws
\* when initType is neither undefined nor a string (no toUpperCase method)
constructor(bankBin, accNo, initType, isAccount, amount, desc, r) ==
    IF initType.t \notin {"undefined", "string"}
    THEN [ok |-> FALSE, obj |-> <<>>]
    ELSE [ok |-> TRUE,
          obj |-> [bankBin |-> bankBin,
                   accNo |-> accNo,
                   initType |-> IF initType.t = "string" /\ toUpperCase(initType.s) # <<>>
                                THEN StrV(toUpperCase(initType.s))
                                ELSE StrV(STATIC),
                   isAccount |-> isAccount,
                   amount |-> amount,
                   desc |-> desc,
                   billNumber |-> generateBillNumber(r)]]

-----------------------------------------------------------------------------
(* Inputs                                                                  *)

\* the string of n copies of character c
Rep(c, n) == [i \in 1..n |-> c]

MaxDescLen == 100     \* descriptions of 0..MaxDescLen characters are tried
MaxValueLen == 101    \* #buildTLV values of 0..MaxValueLen characters are tried
MaxCalls == 2         \* generateQR() calls made on one instance

SampleBankBin == <<"9", "7", "0", "4", "0", "7">>
SampleAccNo == <<"2", "5", "4", "3", "6", "6", "3", "4", "5", "2">>
SampleAmount == <<"5", "0", "0", "0", "0">>
SampleDesc == <<"T", "h", "a", "n", "h", " ", "t", "o", "a", "n">>

Args(bankBin, accNo, initType, isAccount, amount, desc, r) ==
    [bankBin |-> bankBin, accNo |-> accNo, initType |-> initType,
     isAccount |-> isAccount, amount |-> amount, desc |-> desc, r |-> r]

\* every combination of the ordinary, the empty and the omitted arguments
ProductArgs ==
    {Args(b, a, i, c, m, d, 42) :
        b \in {StrV(SampleBankBin), StrV(<<"9", "7", "0", "4", "0">>)},
        a \in {StrV(SampleAccNo), StrV(<<>>), Undefined},
        i \in {Undefined, StrV(<<"s", "t", "a", "t", "i", "c">>),
               StrV(<<"d", "y", "n", "a", "m", "i", "c">>), StrV(<<"f", "o", "o">>)},
        c \in {BoolV(TRUE), Undefined},
        m \in {Undefined, StrV(<<"0">>), StrV(SampleAmount), NumV(0)},
        d \in {Undefined, StrV(<<>>), StrV(SampleDesc)}}

\* a dynamic code with every description length
DescArgs ==
    {Args(StrV(SampleBankBin), StrV(SampleAccNo), StrV(DYNAMIC), BoolV(TRUE),
          StrV(SampleAmount), StrV(Rep("a", n)), 7) : n \in 0..MaxDescLen}

\* long account numbers, other bank ids, amounts, initiation types, bill numbers
EdgeArgs ==
    {Args(b, StrV(Rep("1", n)), Undefined, BoolV(FALSE), Undefined, Undefined, 0) :
        b \in {StrV(SampleBankBin), Undefined, StrV(<<>>)}, n \in {1, 57, 61, 62, 91, 99, 100}}
    \cup
    {Args(StrV(SampleBankBin), StrV(SampleAccNo), i, BoolV(TRUE), m,
          StrV(<<"d", "j", "a", "t">>), r) :
        i \in {StrV(<<>>), StrV(<<"D", "y", "n", "a", "m", "i", "c">>), StrV(STATIC),
               StrV(DYNAMIC), NumV(5)},
        m \in {NumV(50000), StrV(<<>>), StrV(<<"1", "2", ".", "5">>),
               StrV(Rep("9", 99)), StrV(Rep("9", 100))},
        r \in {0, 9999}}

ArgSets == ProductArgs \cup DescArgs \cup EdgeArgs

TlvTags == {MERCHANT_ID, PURPOSE_ID, AMOUNT_ID}
TlvValues == {StrV(Rep("a", n)) : n \in 0..MaxValueLen} \cup {StrV(SampleAccNo)}

-----------------------------------------------------------------------------
(* The state machine                                                       *)

NotCalled == [kind |-> "notCalled", length |-> 0]

New(a) == constructor(a.bankBin, a.accNo, a.initType, a.isAccount,
                      a.amount, a.desc, a.r)

\* the state after construction from any of the argument lists
Init ==
    /\ \E a \in ArgSets : New(a).ok /\ this = New(a).obj
    /\ qr = Throw(NotCalled)
    /\ firstQr = Throw(NotCalled)
    /\ components = NoComponents(NotCalled)
    /\ nGen = 0
    /\ tlvArgs = <<MERCHANT_ID, StrV(SampleAccNo)>>
    /\ tlvRes = Throw(NotCalled)

\* generateQR() drawing a new bill number on every call
GenerateQR_newBillNumber ==
    /\ nGen < MaxCalls
    /\ this' = [this EXCEPT !.billNumber = generateBillNumber(nGen + 1)]
    /\ qr' = generateQR(this')
    /\ firstQr' = IF nGen = 0 THEN qr' ELSE firstQr
    /\ nGen' = nGen + 1
    /\ UNCHANGED <<components, tlvArgs, tlvRes>>

\* a call of generateQR()
GenerateQR ==
    /\ nGen < MaxCalls
    /\ qr' = generateQR(this)
    /\ firstQr' = IF nGen = 0 THEN qr' ELSE firstQr
    /\ nGen' = nGen + 1
    /\ UNCHANGED <<this, components, tlvArgs, tlvRes>>

\* a call of getComponents()
GetComponents ==
    /\ components' = getComponents(this)
    /\ UNCHANGED <<this, qr, firstQr, nGen, tlvArgs, tlvRes>>

Next == GenerateQR \/ GetComponents

Spec == Init /\ [][Next]_vars

\* #buildTLV on its own: the usage example's instance, and any tag and value
InitTLV ==
    /\ this = constructor(StrV(SampleBankBin), StrV(SampleAccNo), Undefined,
                          Undefined, Undefined, Undefined, 42).obj
    /\ qr = Throw(NotCalled)
    /\ firstQr = Throw(NotCalled)
    /\ components = NoComponents(NotCalled)
    /\ nGen = 0
    /\ tlvArgs \in TlvTags \X TlvValues
    /\ tlvRes = Throw(NotCalled)

BuildTLV ==
    /\ tlvRes = Throw(NotCalled)
    /\ tlvRes' = buildTLV(tlvArgs[1], tlvArgs[2])
    /\ UNCHANGED <<this, qr, firstQr, components, nGen, tlvArgs>>

NextTLV == BuildTLV

SpecTLV == InitTLV /\ [][NextTLV]_vars

-----------------------------------------------------------------------------
(* A TLV reader, as an external QR reader would decode the payload         *)

DigitValue(c) == IndexIn(Digits, c) - 1

\* Reads one TLV off the front of s: a 2-character tag, a 2-digit decimal
\* length, and that many value characters.
ParseTLV(s) ==
    IF /\ Len(s) >= 4
       /\ DigitValue(s[3]) >= 0
       /\ DigitValue(s[4]) >= 0
       /\ Len(s) >= 4 + 10 * DigitValue(s[3]) + DigitValue(s[4])
    THEN LET n == 10 * DigitValue(s[3]) + DigitValue(s[4])
         IN  [ok |-> TRUE, tag |-> SubSeq(s, 1, 2), len |-> n,
              value |-> SubSeq(s, 5, 4 + n), rest |-> SubSeq(s, 5 + n, Len(s))]
    ELSE [ok |-> FALSE, tag |-> <<>>, len |-> 0, value |-> <<>>, rest |-> <<>>]

\* Reading TLV after TLV consumes s exactly.
RECURSIVE AllTLV(_)
AllTLV(s) ==
    \/ s = <<>>
    \/ /\ ParseTLV(s).ok
       /\ AllTLV(ParseTLV(s).rest)

\* n as two decimal digits
TwoDigits(n) == <<Digits[(n \div 10) + 1], Digits[(n % 10) + 1]>>

Last4(s) == SubSeq(s, Len(s) - 3, Len(s))

IsDynamic == this.initType = StrV(DYNAMIC)
IsStatic == this.initType = StrV(STATIC)
GenerateQRCalled == nGen > 0
GetComponentsCalled == components.err # NotCalled

-----------------------------------------------------------------------------
(* Claims                                                                  *)

\* C1: for every payload P that generateQR() returns, the CRC16 of P without
\* its last 4 characters is those last 4 characters, and the hashed prefix
\* ends with the checksum tag and its literal length, "6304".
C1_CrcRoundTrip ==
    (GenerateQRCalled /\ qr.ok) =>
        /\ Len(qr.val) >= 8
        /\ calculateCRC16(SubSeq(qr.val, 1, Len(qr.val) - 4)) = Last4(qr.val)
        /\ SubSeq(qr.val, Len(qr.val) - 7, Len(qr.val) - 4) = <<"6", "3", "0", "4">>

\* a returned payload whose checksum needed zero-padding to 4 characters
C1_Witness ==
    GenerateQRCalled /\ qr.ok /\ Last4(qr.val)[1] = "0" /\ IsDynamic

\* C2: what generateQR() returns is, in this order and with nothing between,
\* "000201", the point-of-initiation constant, the merchant account TLV
\* (tag 38), "5303704", the amount segment, "5802VN", the additional data
\* segment, "6304" and the 4-character checksum; the segments are those
\* getComponents() reports for the same instance.
C2_FieldOrder ==
    (GenerateQRCalled /\ qr.ok /\ GetComponentsCalled) =>
        /\ components.ok
        /\ components.pointOfInitiation \in
               {<<"0", "1", "0", "2", "1", "1">>, <<"0", "1", "0", "2", "1", "2">>}
        /\ SubSeq(components.merchantAccount, 1, 2) = <<"3", "8">>
        /\ qr.val = <<"0", "0", "0", "2", "0", "1">>
                    \o components.pointOfInitiation
                    \o components.merchantAccount
                    \o <<"5", "3", "0", "3", "7", "0", "4">>
                    \o components.amount
                    \o <<"5", "8", "0", "2", "V", "N">>
                    \o components.additionalData
                    \o <<"6", "3", "0", "4">>
                    \o Last4(qr.val)
        /\ \A i \in 1..4 : Last4(qr.val)[i] \in
               {Digits[j] : j \in 1..10} \cup {Upper[j] : j \in 1..6}

\* a returned payload that carries both optional segments
C2_Witness ==
    /\ GenerateQRCalled /\ qr.ok /\ components.ok
    /\ components.amount # <<>>
    /\ components.additionalData # <<>>

\* whether the amount the caller gave is zero: the number 0, or a string of
\* "0" digits
AmountIsZero ==
    \/ this.amount.t = "number" /\ this.amount.n = 0
    \/ /\ this.amount.t = "string"
       /\ this.amount.s # <<>>
       /\ \A i \in 1..Len(this.amount.s) : this.amount.s[i] = "0"

AmountIsPresent ==
    /\ this.amount.t # "undefined"
    /\ this.amount # StrV(<<>>)

\* C3: the amount segment is "54" + 2-digit length + amount exactly when the
\* initiation type is DYNAMIC and the amount is present and non-zero; in
\* every other case it is the empty string.
C3_AmountSegment ==
    components.ok =>
        IF IsDynamic /\ AmountIsPresent /\ ~AmountIsZero
        THEN components.amount =
                 <<"5", "4">> \o TwoDigits(Len(Coerce(this.amount)))
                 \o Coerce(this.amount)
        ELSE components.amount = <<>>

\* C4: the additional data segment is non-empty exactly when the initiation
\* type is DYNAMIC; then it reads as the TLV of tag "62" whose value is the
\* TLV of the bill number under "01" followed by the TLV of the description
\* under "08"; when STATIC it and the amount segment are the empty string.
C4_AdditionalData ==
    components.ok =>
        /\ (components.additionalData # <<>>) <=> IsDynamic
        /\ IsDynamic =>
              LET outer == ParseTLV(components.additionalData)
                  bill == ParseTLV(outer.value)
                  purpose == ParseTLV(bill.rest)
              IN  /\ outer.ok /\ outer.tag = <<"6", "2">> /\ outer.rest = <<>>
                  /\ bill.ok /\ bill.tag = <<"0", "1">>
                  /\ bill.value = this.billNumber
                  /\ bill.value = components.billNumber
                  /\ purpose.ok /\ purpose.tag = <<"0", "8">>
                  /\ purpose.value = Coerce(this.desc)
                  /\ purpose.rest = <<>>
        /\ IsStatic => components.additionalData = <<>> /\ components.amount = <<>>

\* getComponents() returned the additional data of a dynamic code
C4_Witness ==
    components.ok /\ IsDynamic /\ components.additionalData # <<>>

\* C5: for a value of n characters, 1 <= n <= 99, the TLV builder returns
\* tag + n as two zero-padded decimal digits + value (("01", "2543663452")
\* gives "01102543663452"); for n < 1 or n > 99 it throws the length error
\* and returns nothing.
C5_TLVBuilder ==
    tlvRes.err # NotCalled =>
        LET tag == tlvArgs[1]
            value == tlvArgs[2].s
            n == Len(value)
        IN  /\ IF 1 <= n /\ n <= 99
               THEN tlvRes = Ok(tag \o TwoDigits(n) \o value)
               ELSE tlvRes = Throw(LengthError(n))
            /\ (tag = <<"0", "1">>
                /\ value = <<"2", "5", "4", "3", "6", "6", "3", "4", "5", "2">>)
               => tlvRes.val = <<"0", "1", "1", "0", "2", "5", "4", "3", "6", "6",
                                 "3", "4", "5", "2">>

\* the builder returned the TLV of a 99-character value
C5_Witness ==
    tlvRes.ok /\ Len(tlvArgs[2].s) = 99 /\ Len(tlvRes.val) = 103

\* C6: a DYNAMIC configuration with a valid bank id, account identifier and
\* amount accepts every description of 0 to 99 characters: generateQR()
\* returns a payload.
C6_DescriptionAccepted ==
    (/\ GenerateQRCalled
     /\ IsDynamic
     /\ this.bankBin.t = "string"
     /\ getMerchantAccountInfo(this).ok
     /\ getTransactionAmount(this).ok
     /\ this.desc.t = "string"
     /\ Len(this.desc.s) <= 99)
    => qr.ok

\* C7: every failure of generateQR() or getComponents() is the length error
\* of the length formatter, and a failing call returns nothing.
C7_SingleErrorKind ==
    /\ (GenerateQRCalled /\ ~qr.ok) =>
           /\ qr.err.kind = "Error"
           /\ qr.val = <<>>
    /\ (GetComponentsCalled /\ ~components.ok) =>
           /\ components.err.kind = "Error"
           /\ components = NoComponents(components.err)

\* C8: no call of generateQR() or getComponents() changes a field of the
\* instance (billNumber included), and every generateQR() call returns what
\* the first call returned.
C8_Idempotent ==
    [][/\ this' = this
       /\ GenerateQRCalled => (qr' = firstQr /\ firstQr' = firstQr)]_vars

\* generateQR() returned a second time, and getComponents() has run too
C8_Witness ==
    nGen >= 2 /\ qr.ok /\ components.ok /\ IsDynamic

\* C9: for every initiation type the constructor accepts, the payload carries
\* the dynamic indicator "010212" exactly when the additional data (tag 62)
\* is present, and the static indicator "010211" exactly when it is absent.
C9_IndicatorMatchesAdditionalData ==
    (GenerateQRCalled /\ qr.ok /\ components.ok) =>
        /\ SubSeq(qr.val, 7, 12) = components.pointOfInitiation
        /\ (SubSeq(qr.val, 7, 12) = <<"0", "1", "0", "2", "1", "2">>)
               <=> (components.additionalData # <<>>)
        /\ (SubSeq(qr.val, 7, 12) = <<"0", "1", "0", "2", "1", "1">>)
               <=> (components.additionalData = <<>>)

\* C10: the merchant account info reads as well-formed TLV at every level:
\* the value of tag 38 and the nested merchant-info block are each consumed
\* exactly by reading TLV after TLV, and the acquirer segment's length field
\* is the character count of bankBin.
C10_MerchantInfoWellFormed ==
    components.ok =>
        LET outer == ParseTLV(components.merchantAccount)
            guid == ParseTLV(outer.value)
            block == ParseTLV(guid.rest)
            acquirer == ParseTLV(block.value)
        IN  /\ outer.ok /\ outer.tag = <<"3", "8">> /\ outer.rest = <<>>
            /\ AllTLV(outer.value)
            /\ guid.ok /\ block.ok /\ block.tag = <<"0", "1">>
            /\ AllTLV(block.value)
            /\ acquirer.ok /\ acquirer.tag = <<"0", "0">>
            /\ acquirer.len = Len(Coerce(this.bankBin))
            /\ acquirer.value = Coerce(this.bankBin)

=============================================================================
